---- MODULE Spec2Model ----
(***************************************************************************)
(* Model of multi_agent_terminal.py: the retrying remote-call wrapper      *)
(* call_gemini, the extraction of the research plan from the planner's     *)
(* text, and the three-stage pipeline run_agent_system.                    *)
(*                                                                         *)
(* A text is a sequence of one-character strings, so that parsing,         *)
(* splitting, trimming and serialisation are computed character by         *)
(* character as the Python code computes them.                             *)
(***************************************************************************)
EXTENDS Integers, Sequences, FiniteSets, TLC

VARIABLES
    pc,               \* position of run_agent_system
    user_goal,        \* argument of run_agent_system
    retries,          \* retry budget of call_gemini (parameter, default 3)
    delay0,           \* initial delay of call_gemini (parameter, default 5)
    plan_text,        \* value returned by the planner call
    research_queries, \* the plan
    qi,               \* number of plan questions whose research call has returned
    all_research,     \* list of notes [question, finding]
    final_report,     \* value returned by the writer call
    cur,              \* the call_gemini invocation in progress or just ended
    calls,            \* history: the call_gemini invocations that have ended, in order
    out,              \* history: terminal outputs printed (final report / system error)
    progress,         \* history: number of "Calling Gemini" progress lines printed
    requests          \* history: number of generate_content_async requests issued

vars == <<pc, user_goal, retries, delay0, plan_text, research_queries, qi,
          all_research, final_report, cur, calls, out, progress, requests>>

-----------------------------------------------------------------------------
(* Characters *)

QT == "\""
BS == "\\"
SP == " "
NL == "\n"
TAB == "\t"
CR == "\r"
LB == "["
RB == "]"
CM == ","
LC == "{"
RC == "}"
CL == ":"

\* whitespace skipped by the json scanner (json.decoder.WHITESPACE)
JsonWs == {SP, TAB, NL, CR}

\* whitespace removed by str.strip() (the part of it over the characters used)
StripWs == {SP, TAB, NL, CR, "\f"}

\* characters below 0x20, rejected inside a JSON string by the strict scanner
ControlChars == {TAB, NL, CR, "\f"}

Digits == {"0", "1", "2", "3", "4", "5", "6", "7", "8", "9"}

-----------------------------------------------------------------------------
(* json.loads, as called at line 143 *)

JFail == [ok |-> FALSE, value |-> [t |-> "none", v |-> <<>>], end |-> 0]

JOk(val, e) == [ok |-> TRUE, value |-> val, end |-> e]

RECURSIVE SkipWs(_, _)
SkipWs(s, i) ==
    IF i <= Len(s) /\ s[i] \in JsonWs THEN SkipWs(s, i + 1) ELSE i

\* s[i..] starts with lit
StartsWith(s, i, lit) ==
    /\ i + Len(lit) - 1 <= Len(s)
    /\ \A k \in 1..Len(lit) : s[i + k - 1] = lit[k]

RECURSIVE DigitsEnd(_, _)
DigitsEnd(s, i) ==
    IF i <= Len(s) /\ s[i] \in Digits THEN DigitsEnd(s, i + 1) ELSE i

\* NUMBER_RE, the integer part -?(0|[1-9]\d*): a is the index after the sign;
\* 0 if no match
IntEnd(s, a) ==
    IF a <= Len(s) /\ s[a] = "0" THEN a + 1
    ELSE IF a <= Len(s) /\ s[a] \in Digits THEN DigitsEnd(s, a)
    ELSE 0

\* NUMBER_RE, the optional fraction (\.\d+)?: b is the end of the integer part,
\* f the end of the digits after b + 1
FracEnd(s, b, f) ==
    IF b # 0 /\ b <= Len(s) /\ s[b] = "." /\ f > b + 1 THEN f ELSE b

\* NUMBER_RE, the optional exponent ([eE][-+]?\d+)?: c is the end of the
\* fraction, g the index of the first exponent digit, e the end of the digits at g
ExpEnd(s, c, g, e) ==
    IF c # 0 /\ c <= Len(s) /\ s[c] \in {"e", "E"} /\ e > g THEN e ELSE c

ExpDigitsAt(s, c) ==
    IF c + 1 <= Len(s) /\ s[c + 1] \in {"-", "+"} THEN c + 2 ELSE c + 1

NumberFrom(s, b) ==
    LET c == FracEnd(s, b, DigitsEnd(s, b + 1))
    IN ExpEnd(s, c, ExpDigitsAt(s, c), DigitsEnd(s, ExpDigitsAt(s, c)))

\* NUMBER_RE matched at i: the index after the match; 0 if no match
NumberEnd(s, i) ==
    NumberFrom(s, IntEnd(s, IF i <= Len(s) /\ s[i] = "-" THEN i + 1 ELSE i))

\* the character an escape \x stands for; "" when the escape is invalid
Unescape(x) ==
    CASE x = QT -> QT
      [] x = BS -> BS
      [] x = "/" -> "/"
      [] x = "n" -> NL
      [] x = "t" -> TAB
      [] x = "r" -> CR
      [] x = "f" -> "\f"
      [] OTHER -> ""

\* py_scanstring (strict): i is the index after the opening quote
RECURSIVE ScanString(_, _, _)
ScanString(s, i, acc) ==
    IF i > Len(s) THEN JFail
    ELSE IF s[i] = QT THEN JOk([t |-> "str", v |-> acc], i + 1)
    ELSE IF s[i] \in ControlChars THEN JFail
    ELSE IF s[i] = BS
         THEN IF i + 1 > Len(s) \/ Unescape(s[i + 1]) = "" THEN JFail
              ELSE ScanString(s, i + 2, Append(acc, Unescape(s[i + 1])))
    ELSE ScanString(s, i + 1, Append(acc, s[i]))

RECURSIVE ScanOnce(_, _)

\* JSONArray, after a value r has been scanned: j is the index of the next
\* character that is not whitespace
RECURSIVE ArrayNext(_, _, _)
RECURSIVE ArrayValue(_, _, _)
ArrayNext(s, acc, j) ==
    IF j > Len(s) THEN JFail
    ELSE IF s[j] = RB THEN JOk([t |-> "list", v |-> acc], j + 1)
    ELSE IF s[j] # CM THEN JFail
    ELSE ArrayValue(s, acc, ScanOnce(s, SkipWs(s, j + 1)))

\* JSONArray: r is the scan of the next item
ArrayValue(s, acc, r) ==
    IF ~r.ok THEN JFail
    ELSE ArrayNext(s, Append(acc, r.value), SkipWs(s, r.end))

\* JSONArray: j is the index of the first character after "[" that is not
\* whitespace
JSONArray(s, j) ==
    IF j <= Len(s) /\ s[j] = RB THEN JOk([t |-> "list", v |-> <<>>], j + 1)
    ELSE ArrayValue(s, <<>>, ScanOnce(s, j))

\* JSONObject, a key at i: k is the scan of the key string, c the index of the
\* next character after it that is not whitespace
RECURSIVE ObjectKey(_, _)
RECURSIVE ObjectValue(_, _)
RECURSIVE ObjectNext(_, _)
ObjectColon(s, k, c) ==
    IF ~k.ok \/ c > Len(s) THEN JFail
    ELSE IF s[c] # CL THEN JFail
    ELSE ObjectValue(s, ScanOnce(s, SkipWs(s, c + 1)))

\* JSONObject: r is the scan of the value of a pair
ObjectValue(s, r) ==
    IF ~r.ok THEN JFail ELSE ObjectNext(s, SkipWs(s, r.end))

\* JSONObject, after a pair: j is the index of the next character that is not
\* whitespace
ObjectNext(s, j) ==
    IF j > Len(s) THEN JFail
    ELSE IF s[j] = RC THEN JOk([t |-> "dict", v |-> <<>>], j + 1)
    ELSE IF s[j] # CM THEN JFail
    ELSE ObjectKey(s, SkipWs(s, j + 1))

ObjectKey(s, i) ==
    IF i > Len(s) \/ s[i] # QT THEN JFail
    ELSE ObjectColon(s, ScanString(s, i + 1, <<>>),
                     SkipWs(s, ScanString(s, i + 1, <<>>).end))

\* JSONObject: j is the index of the first character after "{" that is not
\* whitespace
JSONObject(s, j) ==
    IF j <= Len(s) /\ s[j] = RC THEN JOk([t |-> "dict", v |-> <<>>], j + 1)
    ELSE ObjectKey(s, j)

\* the literals of scan_once at index i: n is NumberEnd(s, i)
ScanLiteral(s, i, n) ==
    IF StartsWith(s, i, <<"n", "u", "l", "l">>)
    THEN JOk([t |-> "null", v |-> <<>>], i + 4)
    ELSE IF StartsWith(s, i, <<"t", "r", "u", "e">>)
         THEN JOk([t |-> "bool", v |-> <<>>], i + 4)
    ELSE IF StartsWith(s, i, <<"f", "a", "l", "s", "e">>)
         THEN JOk([t |-> "bool", v |-> <<>>], i + 5)
    ELSE IF n # 0 THEN JOk([t |-> "number", v |-> <<>>], n)
    ELSE IF StartsWith(s, i, <<"N", "a", "N">>)
         THEN JOk([t |-> "number", v |-> <<>>], i + 3)
    ELSE IF StartsWith(s, i, <<"I", "n", "f", "i", "n", "i", "t", "y">>)
         THEN JOk([t |-> "number", v |-> <<>>], i + 8)
    ELSE IF StartsWith(s, i, <<"-", "I", "n", "f", "i", "n", "i", "t", "y">>)
         THEN JOk([t |-> "number", v |-> <<>>], i + 9)
    ELSE JFail

\* scan_once: the value that starts at index i
ScanOnce(s, i) ==
    IF i > Len(s) THEN JFail
    ELSE IF s[i] = QT THEN ScanString(s, i + 1, <<>>)
    ELSE IF s[i] = LC THEN JSONObject(s, SkipWs(s, i + 1))
    ELSE IF s[i] = LB THEN JSONArray(s, SkipWs(s, i + 1))
    ELSE ScanLiteral(s, i, NumberEnd(s, i))

\* JSONDecoder.decode, the end check: r is the scan of the value
DecodeEnd(s, r) ==
    IF r.ok /\ SkipWs(s, r.end) = Len(s) + 1 THEN r ELSE JFail

\* JSONDecoder.decode: one value, surrounded by whitespace only.
\* ok = FALSE stands for the JSONDecodeError that json.loads raises.
JsonLoads(s) == DecodeEnd(s, ScanOnce(s, SkipWs(s, 1)))

-----------------------------------------------------------------------------
(* Plan extraction, lines 140-152 *)

\* isinstance(research_queries, list) and all(isinstance(q, str) for q in ...)
IsListOfStr(val) ==
    /\ val.t = "list"
    /\ \A k \in 1..Len(val.v) : val.v[k].t = "str"

\* the Python list of str that a JSON list-of-strings value denotes
StrList(val) == [k \in 1..Len(val.v) |-> val.v[k].v]

\* str.split('\n')
RECURSIVE Split(_, _, _)
Split(s, i, piece) ==
    IF i > Len(s) THEN <<piece>>
    ELSE IF s[i] = NL THEN <<piece>> \o Split(s, i + 1, <<>>)
    ELSE Split(s, i + 1, Append(piece, s[i]))

RECURSIVE LStrip(_)
LStrip(s) ==
    IF s # <<>> /\ s[1] \in StripWs THEN LStrip(Tail(s)) ELSE s

RECURSIVE RStrip(_)
RStrip(s) ==
    IF s # <<>> /\ s[Len(s)] \in StripWs THEN RStrip(SubSeq(s, 1, Len(s) - 1)) ELSE s

\* str.strip()
Strip(s) == RStrip(LStrip(s))

\* [q.strip() for q in plan_text.split('\n') if q.strip()]
RECURSIVE StripNonEmpty(_)
StripNonEmpty(pieces) ==
    IF pieces = <<>> THEN <<>>
    ELSE IF Len(Strip(pieces[1])) > 0
         THEN <<Strip(pieces[1])>> \o StripNonEmpty(Tail(pieces))
         ELSE StripNonEmpty(Tail(pieces))

\* SplitLines keeping the non-blank lines as they are: [q for q in ... if q.strip()]
SplitLines_Untrimmed(text) ==
    LET pieces == Split(text, 1, <<>>)
        keep == {k \in 1..Len(pieces) : Len(Strip(pieces[k])) > 0}
        RECURSIVE Pick(_)
        Pick(k) == IF k > Len(pieces) THEN <<>>
                   ELSE IF k \in keep THEN <<pieces[k]>> \o Pick(k + 1)
                   ELSE Pick(k + 1)
    IN Pick(1)

SplitLines(text) == StripNonEmpty(Split(text, 1, <<>>))

\* the inner try block, lines 141-145: the exception it ends with ("none" if
\* it completes) and the value bound to research_queries
TryParse(text) ==
    LET r == JsonLoads(text)
    IN IF ~r.ok THEN [exc |-> "JSONDecodeError", queries |-> <<>>]
       ELSE IF ~IsListOfStr(r.value) THEN [exc |-> "JSONDecodeError", queries |-> <<>>]
       ELSE [exc |-> "none", queries |-> StrList(r.value)]

\* ParseOrSplit with the parsed list thrown away: the lines are always used
ParseOrSplit_AlwaysSplit(text) ==
    [raised |-> FALSE, queries |-> SplitLines(text)]

\* the except clause, lines 146-148
ParseOrSplit(text) ==
    LET p == TryParse(text)
    IN IF p.exc = "none" THEN [raised |-> FALSE, queries |-> p.queries]
       ELSE IF p.exc = "JSONDecodeError" THEN [raised |-> FALSE, queries |-> SplitLines(text)]
       ELSE [raised |-> TRUE, queries |-> <<>>]

\* ExtractPlan falling back on the goal whenever the text is not a JSON list
\* of strings
ExtractPlan_GoalOnFailure(text, goal) ==
    LET p == TryParse(text)
    IN IF p.exc # "none" \/ Len(p.queries) = 0
       THEN [raised |-> FALSE, plan |-> <<goal>>]
       ELSE [raised |-> FALSE, plan |-> p.queries]

\* ExtractPlan without the fallback of lines 150-152
ExtractPlan_NoFallback(text, goal) ==
    LET q == ParseOrSplit(text)
    IN [raised |-> q.raised, plan |-> q.queries]

\* lines 140-152: raised = an exception leaves the block; plan = research_queries
ExtractPlan(text, goal) ==
    LET q == ParseOrSplit(text)
    IN IF q.raised THEN [raised |-> TRUE, plan |-> <<>>]
       ELSE IF Len(q.queries) = 0 THEN [raised |-> FALSE, plan |-> <<goal>>]
       ELSE [raised |-> FALSE, plan |-> q.queries]

-----------------------------------------------------------------------------
(* Fixed strings of the program *)

ErrorPrefix ==
    <<"[", "E", "r", "r", "o", "r", ":", SP>>

BlockedPrefix ==
    <<"[", "R", "e", "s", "p", "o", "n", "s", "e", SP, "b", "l", "o", "c",
      "k", "e", "d", SP, "b", "y", SP, "s", "a", "f", "e", "t", "y", SP, "f",
      "i", "l", "t", "e", "r", ":", SP>>

EmptyMarker ==
    <<"[", "N", "o", SP, "c", "o", "n", "t", "e", "n", "t", SP, "r", "e",
      "t", "u", "r", "n", "e", "d", SP, "f", "r", "o", "m", SP, "A", "P",
      "I", "]">>

RetriesExhaustedMsg ==
    <<"A", "P", "I", SP, "c", "a", "l", "l", SP, "f", "a", "i", "l", "e",
      "d", SP, "a", "f", "t", "e", "r", SP, "m", "u", "l", "t", "i", "p",
      "l", "e", SP, "r", "e", "t", "r", "i", "e", "s", ".">>

\* str(IndexError) for an index past the end of a list
IndexErrorMsg ==
    <<"l", "i", "s", "t", SP, "i", "n", "d", "e", "x", SP, "o", "u", "t", SP,
      "o", "f", SP, "r", "a", "n", "g", "e">>

InvalidStructureMsg ==
    <<"I", "n", "v", "a", "l", "i", "d", SP, "r", "e", "s", "p", "o", "n",
      "s", "e", SP, "s", "t", "r", "u", "c", "t", "u", "r", "e", SP, "f",
      "r", "o", "m", SP, "A", "P", "I", ".", SP, "R", "e", "s", "p", "o",
      "n", "s", "e", ":", SP>>

WriterTaskPrefix ==
    <<"P", "l", "e", "a", "s", "e", SP, "w", "r", "i", "t", "e", SP, "a", SP,
      "f", "i", "n", "a", "l", SP, "r", "e", "p", "o", "r", "t", SP, "b",
      "a", "s", "e", "d", SP, "o", "n", SP, "t", "h", "e", SP, "f", "o", "l",
      "l", "o", "w", "i", "n", "g", SP, "r", "e", "s", "e", "a", "r", "c",
      "h", SP, "n", "o", "t", "e", "s", ":", NL, NL>>

SystemErrorPrefix ==
    <<"A", "n", SP, "e", "r", "r", "o", "r", SP, "o", "c", "c", "u", "r",
      "r", "e", "d", SP, "i", "n", SP, "t", "h", "e", SP, "a", "g", "e", "n",
      "t", SP, "s", "y", "s", "t", "e", "m", ":", SP>>

QuestionKey ==
    <<SP, SP, SP, SP, QT, "q", "u", "e", "s", "t", "i", "o", "n", QT, ":",
      SP>>

FindingKey ==
    <<SP, SP, SP, SP, QT, "f", "i", "n", "d", "i", "n", "g", QT, ":", SP>>

\* f"[Error: {e}]"
ErrorMarker(msg) == ErrorPrefix \o msg \o <<RB>>

\* f"[Response blocked by safety filter: {safety_ratings}]"
BlockedMarker(ratings) == BlockedPrefix \o ratings \o <<RB>>

\* f"An error occurred in the agent system: {e}"
SystemErrorText(msg) == SystemErrorPrefix \o msg

-----------------------------------------------------------------------------
(* json.dumps(all_research, indent=2), line 168 *)

\* the escape of one character inside a JSON string (ensure_ascii encoder)
EscapeChar(c) ==
    CASE c = QT -> <<BS, QT>>
      [] c = BS -> <<BS, BS>>
      [] c = NL -> <<BS, "n">>
      [] c = TAB -> <<BS, "t">>
      [] c = CR -> <<BS, "r">>
      [] c = "\f" -> <<BS, "f">>
      [] OTHER -> <<c>>

RECURSIVE EscapeAll(_)
EscapeAll(s) ==
    IF s = <<>> THEN <<>> ELSE EscapeChar(s[1]) \o EscapeAll(Tail(s))

DumpStr(s) == <<QT>> \o EscapeAll(s) \o <<QT>>

\* one {"question": ..., "finding": ...} dict at indent level 1
DumpNote(note) ==
    <<SP, SP, LC, NL>> \o QuestionKey \o DumpStr(note.question) \o <<CM, NL>>
        \o FindingKey \o DumpStr(note.finding) \o <<NL, SP, SP, RC>>

RECURSIVE DumpNotes(_)
DumpNotes(notes) ==
    IF Len(notes) = 1 THEN DumpNote(notes[1])
    ELSE DumpNote(notes[1]) \o <<CM, NL>> \o DumpNotes(Tail(notes))

JsonDumps(notes) ==
    IF notes = <<>> THEN <<LB, RB>>
    ELSE <<LB, NL>> \o DumpNotes(notes) \o <<NL, RB>>

\* writer_task, line 168
WriterTask(notes) == WriterTaskPrefix \o JsonDumps(notes)

-----------------------------------------------------------------------------
(* call_gemini, lines 57-120 *)

\* default arguments of call_gemini
DefaultRetries == 3
DefaultDelay == 5

\* the exception classes of the first except clause, lines 107-109
TransientKinds == {"ResourceExhausted", "ServiceUnavailable", "InternalServerError"}

Return(v) == [tag |-> "return", exc |-> "none", msg |-> <<>>, value |-> v]
Raise(kind, m) == [tag |-> "raise", exc |-> kind, msg |-> m, value |-> <<>>]

\* ProcessResponse with the two checks of lines 96 and 101 in the other order
ProcessResponse_EmptyFirst(response) ==
    LET candidates == response.candidates
    IN IF Len(candidates) > 0 /\ Len(candidates[1].parts) > 0
       THEN Return(candidates[1].parts[1])
       ELSE IF Len(candidates) = 0
            THEN Raise("IndexError", IndexErrorMsg)
       ELSE IF Len(candidates[1].parts) = 0 THEN Return(EmptyMarker)
       ELSE IF candidates[1].finish_reason = "SAFETY"
            THEN Return(BlockedMarker(candidates[1].safety_ratings))
       ELSE Raise("Exception", InvalidStructureMsg)

\* lines 90-105: what the body of the try block does with a response
ProcessResponse(response) ==
    LET candidates == response.candidates
    IN IF Len(candidates) > 0 /\ Len(candidates[1].parts) > 0
       THEN Return(candidates[1].parts[1])
       ELSE IF Len(candidates) = 0
            THEN Raise("IndexError", IndexErrorMsg)      \* candidates[0], line 94
       ELSE LET finish_reason == candidates[1].finish_reason
                safety_ratings == candidates[1].safety_ratings
            IN IF finish_reason # "NONE" /\ finish_reason = "SAFETY"
               THEN Return(BlockedMarker(safety_ratings))
               ELSE IF Len(candidates) > 0 /\ Len(candidates[1].parts) = 0
                    THEN Return(EmptyMarker)
               ELSE Raise("Exception", InvalidStructureMsg)

\* lines 88-105: the try block, for what the service did with the request
TryBody(outcome) ==
    IF outcome.kind = "raise" THEN Raise(outcome.exc, outcome.msg)
    ELSE ProcessResponse(outcome.response)

\* Attempt with one except clause for every exception: all are retried
Attempt_RetryAny(outcome) ==
    LET b == TryBody(outcome)
    IN IF b.tag = "return" THEN [tag |-> "return", value |-> b.value]
       ELSE [tag |-> "retry", value |-> <<>>]

\* lines 87-117: one iteration of the retry loop.
\* "return": call_gemini returns value; "retry": it slept and goes on.
\* No path of the loop body lets an exception leave call_gemini.
Attempt(outcome) ==
    LET b == TryBody(outcome)
    IN IF b.tag = "return" THEN [tag |-> "return", value |-> b.value]
       ELSE IF b.exc \in TransientKinds THEN [tag |-> "retry", value |-> <<>>]
       ELSE [tag |-> "return", value |-> ErrorMarker(b.msg)]

-----------------------------------------------------------------------------
(* The remote service: what one generate_content_async request can do *)

FinishReasons == {"NONE", "STOP", "SAFETY", "MAX_TOKENS"}

\* repr of the safety ratings of a candidate
Ratings == <<"H">>

Cand(parts, fr) == [parts |-> parts, finish_reason |-> fr, safety_ratings |-> Ratings]

Responds(cands) ==
    [kind |-> "response", exc |-> "none", msg |-> <<>>,
     response |-> [candidates |-> cands]]

Raises(k, m) ==
    [kind |-> "raise", exc |-> k, msg |-> m, response |-> [candidates |-> <<>>]]

\* exception classes other than the three of lines 107-109
OtherKinds == {"InvalidArgument", "ValueError"}

ExcMsgs == { <<"p", NL, "q">> }

\* texts the service answers with, per role of the request
PlannerTexts ==
    { <<LB, QT, "a", QT, CM, SP, QT, "b", QT, RB>>,     \* ["a", "b"]
      <<LB, QT, SP, QT, RB>>,                           \* [" "]
      <<LB, RB>>,                                       \* []
      <<"1", ".", SP, "a", NL, NL, SP, "b", SP>>,       \* two lines and a blank one
      <<LB, "1", RB>>,                                  \* [1]
      <<>> }

FindingTexts == { <<"f">>, <<"k", QT, NL>> }

ReportTexts == { <<"r">>, <<"#", SP, "R">> }

TextsOf(role) ==
    CASE role = "Manager" -> PlannerTexts
      [] role = "Researcher" -> FindingTexts
      [] role = "Writer" -> ReportTexts

\* the responses a request of the given role can get
Responses(role) ==
    { Responds(<<Cand(<<t>>, "STOP")>>) : t \in TextsOf(role) }
      \cup { Responds(<<Cand(<<t, <<"z">>>>, "SAFETY"), Cand(<<<<"y">>>>, "STOP")>>) :
                t \in TextsOf(role) }
      \cup { Responds(<<Cand(<<>>, fr)>>) : fr \in FinishReasons }
      \cup { Responds(<<Cand(<<>>, "SAFETY"), Cand(<<<<"y">>>>, "STOP")>>) }
      \cup { Responds(<<>>) }

\* the exceptions a request can raise
Failures ==
    { Raises(k, <<"t">>) : k \in TransientKinds }
      \cup { Raises(k, m) : k \in OtherKinds, m \in ExcMsgs }

\* the shape of what the service did, for the history of calls
HowEnded(outcome) ==
    IF outcome.kind = "raise" THEN "exception"
    ELSE IF Len(outcome.response.candidates) = 0 THEN "no_candidates"
    ELSE IF Len(outcome.response.candidates[1].parts) > 0 THEN "text"
    ELSE IF outcome.response.candidates[1].finish_reason = "SAFETY" THEN "blocked"
    ELSE "empty"

\* the in-band strings call_gemini returns in place of a text
MarkerTexts ==
    {ErrorMarker(m) : m \in ExcMsgs \cup {IndexErrorMsg}}
        \cup {BlockedMarker(Ratings), EmptyMarker}

\* the values a call of the given role can return
ReturnValues(role) == TextsOf(role) \cup MarkerTexts

-----------------------------------------------------------------------------
(* State *)

Goals == { <<"g">> }

RetryBudgets == 0..DefaultRetries

InitialDelays == {1, DefaultDelay}

NoCall ==
    [role |-> "none", prompt |-> <<>>, use_search |-> FALSE, attempt |-> 0,
     delay |-> 0, sleeps |-> <<>>, outcomes |-> <<>>, status |-> "none",
     value |-> <<>>]

Init ==
    /\ pc = "start"
    /\ user_goal \in Goals
    /\ retries \in RetryBudgets
    /\ delay0 \in InitialDelays
    /\ plan_text = <<>>
    /\ research_queries = <<>>
    /\ qi = 0
    /\ all_research = <<>>
    /\ final_report = <<>>
    /\ cur = NoCall
    /\ calls = <<>>
    /\ out = <<>>
    /\ progress = 0
    /\ requests = 0

\* BeginCall with the delay kept from the call before
BeginCall_KeepDelay(role, prompt, use_search) ==
    /\ cur' = [role |-> role, prompt |-> prompt, use_search |-> use_search,
               attempt |-> 0,
               delay |-> IF cur.status = "none" THEN delay0 ELSE cur.delay,
               sleeps |-> <<>>,
               outcomes |-> <<>>, status |-> "running", value |-> <<>>]
    /\ progress' = progress + 1

\* lines 57-85: call_gemini is entered; one progress line is printed (line 71)
BeginCall(role, prompt, use_search) ==
    /\ cur' = [role |-> role, prompt |-> prompt, use_search |-> use_search,
               attempt |-> 0, delay |-> delay0, sleeps |-> <<>>,
               outcomes |-> <<>>, status |-> "running", value |-> <<>>]
    /\ progress' = progress + 1

\* the record kept of a call that has ended
Ended(c) ==
    [role |-> c.role, prompt |-> c.prompt, use_search |-> c.use_search,
     status |-> c.status, value |-> c.value,
     how |-> IF c.outcomes = <<>> THEN "exhausted"
             ELSE IF c.outcomes[Len(c.outcomes)].exc \in TransientKinds THEN "exhausted"
             ELSE HowEnded(c.outcomes[Len(c.outcomes)])]

Calling == pc \in {"planning", "researching", "writing"}

\* DoAttempt with the progress line of line 71 printed inside the loop
DoAttempt_LogEach(o) ==
    LET a == Attempt(o)
    IN /\ requests' = requests + 1
       /\ progress' = progress + (IF cur.outcomes = <<>> THEN 0 ELSE 1)
       /\ cur' = IF a.tag = "return"
                 THEN [cur EXCEPT !.outcomes = Append(@, o),
                                  !.status = "returned",
                                  !.value = a.value]
                 ELSE [cur EXCEPT !.outcomes = Append(@, o),
                                  !.attempt = @ + 1,
                                  !.sleeps = Append(@, cur.delay),
                                  !.delay = @ * 2]
       /\ UNCHANGED <<pc, user_goal, retries, delay0, plan_text, research_queries,
                      qi, all_research, final_report, calls, out>>

\* lines 86-117: one iteration of the loop, the request getting outcome o
DoAttempt(o) ==
    LET a == Attempt(o)
    IN /\ requests' = requests + 1
       /\ cur' = IF a.tag = "return"
                 THEN [cur EXCEPT !.outcomes = Append(@, o),
                                  !.status = "returned",
                                  !.value = a.value]
                 ELSE [cur EXCEPT !.outcomes = Append(@, o),
                                  !.attempt = @ + 1,
                                  !.sleeps = Append(@, cur.delay),   \* line 111
                                  !.delay = @ * 2]                   \* line 112
       /\ UNCHANGED <<pc, user_goal, retries, delay0, plan_text, research_queries,
                      qi, all_research, final_report, calls, out, progress>>

\* AttemptResponds with the loop going on after the return of line 91
AttemptResponds_AfterReturn ==
    /\ Calling
    /\ cur.status \in {"running", "returned"}
    /\ cur.attempt < retries
    /\ \E o \in Responses(cur.role) : DoAttempt(o)

\* line 88 gets a response
AttemptResponds ==
    /\ Calling
    /\ cur.status = "running"
    /\ cur.attempt < retries
    /\ \E o \in Responses(cur.role) : DoAttempt(o)

\* AttemptRaises with the loop bound off by one: range(retries + 1)
AttemptRaises_OneMore ==
    /\ Calling
    /\ cur.status = "running"
    /\ cur.attempt <= retries
    /\ \E o \in Failures : DoAttempt(o)

\* line 88 raises
AttemptRaises ==
    /\ Calling
    /\ cur.status = "running"
    /\ cur.attempt < retries
    /\ \E o \in Failures : DoAttempt(o)

\* RetriesExhausted with the loop started over instead of the raise
RetriesExhausted_StartOver ==
    /\ Calling
    /\ cur.status = "running"
    /\ cur.attempt >= retries
    /\ cur' = [cur EXCEPT !.attempt = 0]
    /\ UNCHANGED <<pc, user_goal, retries, delay0, plan_text, research_queries,
                   qi, all_research, final_report, calls, out, progress, requests>>

\* lines 119-120: the loop is over
RetriesExhausted ==
    /\ Calling
    /\ cur.status = "running"
    /\ cur.attempt >= retries
    /\ cur' = [cur EXCEPT !.status = "raised", !.value = RetriesExhaustedMsg]
    /\ UNCHANGED <<pc, user_goal, retries, delay0, plan_text, research_queries,
                   qi, all_research, final_report, calls, out, progress, requests>>

-----------------------------------------------------------------------------
(* run_agent_system, lines 125-184 *)

\* lines 179-184: the except clause of run_agent_system
SystemError(msg) ==
    /\ out' = Append(out, [kind |-> "SYSTEM_ERROR", text |-> SystemErrorText(msg)])
    /\ pc' = "failed"

\* Continue leaving the loop after one question
Continue_SkipToWriter(plan, i, notes) ==
    IF i < 1
    THEN /\ BeginCall("Researcher", plan[i + 1], TRUE)
         /\ pc' = "researching"
    ELSE /\ BeginCall("Writer", WriterTask(notes), FALSE)
         /\ pc' = "writing"

\* Continue going through the plan from its end
Continue_Reversed(plan, i, notes) ==
    IF i < Len(plan)
    THEN /\ BeginCall("Researcher", plan[Len(plan) - i], TRUE)
         /\ pc' = "researching"
    ELSE /\ BeginCall("Writer", WriterTask(notes), FALSE)
         /\ pc' = "writing"

\* lines 158-171: the loop goes to its next question, or the writer is called
Continue(plan, i, notes) ==
    IF i < Len(plan)
    THEN /\ BeginCall("Researcher", plan[i + 1], TRUE)
         /\ pc' = "researching"
    ELSE /\ BeginCall("Writer", WriterTask(notes), FALSE)
         /\ pc' = "writing"

\* lines 140-152 over the values the planner call can return
ExtractPlanTable ==
    [t \in ReturnValues("Manager") |-> [g \in Goals |-> ExtractPlan(t, g)]]

\* lines 130-137
Start ==
    /\ pc = "start"
    /\ BeginCall("Manager", user_goal, FALSE)
    /\ pc' = "planning"
    /\ UNCHANGED <<user_goal, retries, delay0, plan_text, research_queries, qi,
                   all_research, final_report, calls, out, requests>>

\* lines 137-161: the planner call has returned
PlannerReturned ==
    /\ pc = "planning"
    /\ cur.status = "returned"
    /\ calls' = Append(calls, Ended(cur))
    /\ plan_text' = cur.value
    /\ LET e == ExtractPlanTable[cur.value][user_goal]
       IN IF e.raised
          THEN /\ SystemError(<<>>)
               /\ UNCHANGED <<research_queries, cur, progress>>
          ELSE /\ research_queries' = e.plan
               /\ Continue(e.plan, 0, <<>>)
               /\ out' = out
    /\ all_research' = <<>>
    /\ qi' = 0
    /\ UNCHANGED <<user_goal, retries, delay0, final_report, requests>>

\* ResearchReturned with the note assigned instead of appended
ResearchReturned_KeepLast ==
    /\ pc = "researching"
    /\ cur.status = "returned"
    /\ calls' = Append(calls, Ended(cur))
    /\ all_research' = <<[question |-> research_queries[qi + 1],
                          finding |-> cur.value]>>
    /\ qi' = qi + 1
    /\ Continue(research_queries, qi + 1, all_research')
    /\ UNCHANGED <<user_goal, retries, delay0, plan_text, research_queries,
                   final_report, out, requests>>

\* lines 161-171: a research call has returned
ResearchReturned ==
    /\ pc = "researching"
    /\ cur.status = "returned"
    /\ calls' = Append(calls, Ended(cur))
    /\ all_research' = Append(all_research,
                              [question |-> research_queries[qi + 1],
                               finding |-> cur.value])
    /\ qi' = qi + 1
    /\ Continue(research_queries, qi + 1, all_research')
    /\ UNCHANGED <<user_goal, retries, delay0, plan_text, research_queries,
                   final_report, out, requests>>

\* WriterReturned without the prints of lines 175-177
WriterReturned_NoPrint ==
    /\ pc = "writing"
    /\ cur.status = "returned"
    /\ calls' = Append(calls, Ended(cur))
    /\ final_report' = cur.value
    /\ pc' = "done"
    /\ UNCHANGED <<user_goal, retries, delay0, plan_text, research_queries, qi,
                   all_research, cur, progress, requests, out>>

\* lines 171-177: the writer call has returned
WriterReturned ==
    /\ pc = "writing"
    /\ cur.status = "returned"
    /\ calls' = Append(calls, Ended(cur))
    /\ final_report' = cur.value
    /\ out' = Append(out, [kind |-> "FINAL_REPORT", text |-> cur.value])
    /\ pc' = "done"
    /\ UNCHANGED <<user_goal, retries, delay0, plan_text, research_queries, qi,
                   all_research, cur, progress, requests>>

\* CallRaised with the exception caught inside the loop: the error is printed
\* and the run goes on with the empty-content marker as the value of the call
CallRaised_GoOn ==
    /\ Calling
    /\ cur.status = "raised"
    /\ out' = Append(out, [kind |-> "SYSTEM_ERROR", text |-> SystemErrorText(cur.value)])
    /\ cur' = [cur EXCEPT !.status = "returned", !.value = EmptyMarker]
    /\ UNCHANGED <<pc, user_goal, retries, delay0, plan_text, research_queries, qi,
                   all_research, final_report, calls, progress, requests>>

\* lines 179-184: an exception has left a call_gemini call
CallRaised ==
    /\ Calling
    /\ cur.status = "raised"
    /\ calls' = Append(calls, Ended(cur))
    /\ SystemError(cur.value)
    /\ UNCHANGED <<user_goal, retries, delay0, plan_text, research_queries, qi,
                   all_research, final_report, cur, progress, requests>>

Next ==
    \/ Start
    \/ AttemptResponds
    \/ AttemptRaises
    \/ RetriesExhausted
    \/ PlannerReturned
    \/ ResearchReturned
    \/ WriterReturned
    \/ CallRaised

Spec == Init /\ [][Next]_vars

\* the run goes on while it has a step to take: each awaited request
\* eventually responds or raises, and the interpreter executes what follows
FairSpec == Spec /\ WF_vars(Next)

-----------------------------------------------------------------------------
(* The plan extraction on its own: lines 140-152 applied to a planner text *)

\* longest planner text enumerated character by character
MaxTextLen == 4

\* most strings in an enumerated JSON array of strings
MaxStrings == 2

Alphabet == {LB, RB, QT, CM, SP, NL, LC, RC, "a", "1"}

ShortTexts == UNION { [1..n -> Alphabet] : n \in 0..MaxTextLen }

\* the strings put in the enumerated JSON arrays: empty, blank, plain, and
\* with characters that JSON escapes
StrElems == { <<>>, <<SP>>, <<"a">>, <<SP, "b", QT>>, <<"c", NL>> }

StrLists == UNION { [1..n -> StrElems] : n \in 0..MaxStrings }

\* the separators written between the items, and around the array
Seps == { <<CM>>, <<CM, SP>>, <<SP, CM, NL>> }

RECURSIVE JoinItems(_, _)
JoinItems(list, sep) ==
    IF list = <<>> THEN <<>>
    ELSE IF Len(list) = 1 THEN DumpStr(list[1])
    ELSE DumpStr(list[1]) \o sep \o JoinItems(Tail(list), sep)

\* a JSON text of the array of strings list
ArrayText(list, sep) == <<LB>> \o JoinItems(list, sep) \o <<RB>>

ArrayTexts == { ArrayText(l, sep) : l \in StrLists, sep \in Seps }

ExtractGoals == { <<"g">>, <<"h", SP, "i">> }

InitExtract ==
    /\ pc = "extract"
    /\ user_goal \in ExtractGoals
    /\ plan_text \in ShortTexts \cup ArrayTexts
    /\ retries = DefaultRetries
    /\ delay0 = DefaultDelay
    /\ research_queries = <<>>
    /\ qi = 0
    /\ all_research = <<>>
    /\ final_report = <<>>
    /\ cur = NoCall
    /\ calls = <<>>
    /\ out = <<>>
    /\ progress = 0
    /\ requests = 0

\* lines 140-152
Extract ==
    /\ pc = "extract"
    /\ LET e == ExtractPlan(plan_text, user_goal)
       IN /\ pc' = IF e.raised THEN "extract_raised" ELSE "extracted"
          /\ research_queries' = e.plan
    /\ UNCHANGED <<user_goal, retries, delay0, plan_text, qi, all_research,
                   final_report, cur, calls, out, progress, requests>>

NextExtract == Extract

SpecExtract == InitExtract /\ [][NextExtract]_vars

-----------------------------------------------------------------------------
(* Vocabulary of the properties *)

\* the request failed with one of the three transient kinds
IsTransientFailure(o) ==
    /\ o.kind = "raise"
    /\ o.exc \in {"ResourceExhausted", "ServiceUnavailable", "InternalServerError"}

\* the request raised an exception of any other type
IsOtherFailure(o) == o.kind = "raise" /\ ~IsTransientFailure(o)

\* the response has no candidates
IsNoCandidates(o) == o.kind = "response" /\ Len(o.response.candidates) = 0

\* the first candidate of the response has no content segments
IsNoSegments(o) ==
    /\ o.kind = "response"
    /\ Len(o.response.candidates) > 0
    /\ Len(o.response.candidates[1].parts) = 0

\* a content-safety-blocked response
IsBlocked(o) ==
    IsNoSegments(o) /\ o.response.candidates[1].finish_reason = "SAFETY"

CallEnded == cur.status \in {"returned", "raised"}

\* the k-th call_gemini invocation of the run, ended or in progress
CallAt(k) == IF k <= Len(calls) THEN calls[k] ELSE Ended(cur)

\* number of call_gemini invocations begun so far
CallsBegun ==
    IF cur.status = "none" THEN 0
    ELSE IF pc \in {"done", "failed"} THEN Len(calls)
    ELSE Len(calls) + 1

RECURSIVE Without(_, _)
Without(s, set) ==
    IF s = <<>> THEN <<>>
    ELSE IF s[1] \in set THEN Without(Tail(s), set)
    ELSE <<s[1]>> \o Without(Tail(s), set)

\* the text holds no question: it is blank, or it is a JSON empty array
HoldsNoQuestion(text) == Without(text, {SP, TAB, NL, CR}) \in {<<>>, <<LB, RB>>}

-----------------------------------------------------------------------------
(* C1: in a call_gemini call an attempt is followed by another attempt only    *)
(* when it failed with ResourceExhausted, ServiceUnavailable or                *)
(* InternalServerError; an exception of any other type, raised by the request  *)
(* or while the response is read, on any attempt, ends the call at that        *)
(* attempt with the returned value "[Error: <message>]": no raise, no further  *)
(* request.                                                                    *)
C1_OnlyTransientRetried ==
    \A k \in 1..Len(cur.outcomes) :
        LET o == cur.outcomes[k]
        IN /\ k < Len(cur.outcomes) => IsTransientFailure(o)
           /\ IsOtherFailure(o) =>
                 /\ k = Len(cur.outcomes)
                 /\ cur.status = "returned"
                 /\ cur.value = <<"[", "E", "r", "r", "o", "r", ":", " ">> \o o.msg \o <<"]">>
           /\ IsNoCandidates(o) =>
                 /\ k = Len(cur.outcomes)
                 /\ cur.status = "returned"
                 /\ cur.value = ErrorMarker(IndexErrorMsg)

\* a non-transient exception on the third attempt has ended the call
C1_Witness ==
    /\ Len(cur.outcomes) = 3
    /\ IsOtherFailure(cur.outcomes[3])
    /\ cur.status = "returned"

(* C2: when every attempt of a call with retry budget R fails with a transient *)
(* error, the call issues exactly R requests and then raises the "retries      *)
(* exhausted" failure; it returns nothing, and no call issues more than R      *)
(* requests.                                                                   *)
C2_ExhaustedAfterBudget ==
    LET allTransient == \A k \in 1..Len(cur.outcomes) : IsTransientFailure(cur.outcomes[k])
    IN /\ Len(cur.outcomes) <= retries
       /\ (cur.status # "none" /\ allTransient /\ Len(cur.outcomes) = retries) =>
              /\ cur.status \in {"running", "raised"}
              /\ cur.status = "running" => ENABLED RetriesExhausted
       /\ (CallEnded /\ allTransient) =>
              /\ cur.status = "raised"
              /\ Len(cur.outcomes) = retries
              /\ Len(cur.sleeps) = retries
              /\ cur.value = RetriesExhaustedMsg
       /\ cur.status = "raised" => (allTransient /\ Len(cur.outcomes) = retries)

\* three transient failures with the default budget of 3, and the call has raised
C2_Witness ==
    /\ retries = 3
    /\ cur.status = "raised"
    /\ Len(cur.outcomes) = 3
    /\ \A k \in 1..3 : IsTransientFailure(cur.outcomes[k])

(* C3: a response of a malformed shape (one without candidates) makes         *)
(* call_gemini raise a failure that is not retried and that reaches            *)
(* run_agent_system instead of being returned as a value.                      *)
C3_MalformedShapeRaises ==
    \A k \in 1..Len(calls) :
        calls[k].how = "no_candidates" => calls[k].status = "raised"

(* C4: when an exception leaves a call_gemini call in any stage, the run is    *)
(* aborted there: no later call is begun and no request issued, no final       *)
(* report is printed, the system-error message is printed exactly once, and    *)
(* the notes gathered so far go nowhere.                                       *)
C4_AbortOnEscape ==
    /\ (Calling /\ cur.status = "raised") =>
          /\ ~ENABLED (AttemptResponds \/ AttemptRaises \/ RetriesExhausted)
          /\ ~ENABLED (PlannerReturned \/ ResearchReturned \/ WriterReturned)
          /\ out = <<>>
    /\ \A k \in 1..Len(calls) :
          calls[k].status = "raised" =>
              /\ k = Len(calls)
              /\ pc = "failed"
              /\ cur.status = "raised"
              /\ Ended(cur) = calls[k]
              /\ out = <<[kind |-> "SYSTEM_ERROR", text |-> SystemErrorText(calls[k].value)]>>
              /\ final_report = <<>>
              /\ ~ENABLED Next
    /\ pc = "failed" => (Len(calls) > 0 /\ calls[Len(calls)].status = "raised")

\* the second research call raised after one note had been gathered
C4_Witness ==
    /\ pc = "failed"
    /\ Len(calls) = 3
    /\ calls[3].role = "Researcher"
    /\ Len(all_research) = 1

(* C5, as claimed: once a research call has ended with an in-band string for a *)
(* non-transient exception or a safety block, every plan question is           *)
(* researched and the writer is called before the run ends.                    *)
C5_Original ==
    \A k \in 1..Len(calls) :
        (calls[k].role = "Researcher" /\ calls[k].how \in {"exception", "blocked"}) =>
            (pc \in {"done", "failed"} =>
                /\ Len(all_research) = Len(research_queries)
                /\ \E j \in 1..Len(calls) : calls[j].role = "Writer")

(* C5, amended: the in-band string of such a research call is recorded as the  *)
(* finding for its question and the run is not aborted on that account: the    *)
(* next call begun is the research of the next plan question or, after the     *)
(* last one, the writer call; every remaining question is researched in order  *)
(* and the writer runs unless a later call exhausts its retry budget.          *)
C5_Amended ==
    \A k \in 1..Len(calls) :
        (calls[k].role = "Researcher" /\ calls[k].how \in {"exception", "blocked"}) =>
            /\ calls[k].status = "returned"
            /\ calls[k].value \in {BlockedMarker(Ratings)} \cup {ErrorMarker(m) : m \in ExcMsgs}
            /\ Len(all_research) >= k - 1
            /\ all_research[k - 1] = [question |-> research_queries[k - 1],
                                      finding |-> calls[k].value]
            /\ calls[k].prompt = research_queries[k - 1]
            /\ CallsBegun >= k + 1
            /\ IF k - 1 < Len(research_queries)
               THEN /\ CallAt(k + 1).role = "Researcher"
                    /\ CallAt(k + 1).prompt = research_queries[k]
               ELSE CallAt(k + 1).role = "Writer"
            /\ (pc \in {"done", "failed"} /\ \A j \in 1..Len(calls) : calls[j].status # "raised") =>
                  /\ Len(all_research) = Len(research_queries)
                  /\ calls[Len(calls)].role = "Writer"
                  /\ \A j \in 1..Len(research_queries) :
                        /\ calls[j + 1].role = "Researcher"
                        /\ calls[j + 1].prompt = research_queries[j]

\* the first of two research calls hit a non-transient exception and the run is done
C5_Witness ==
    /\ pc = "done"
    /\ Len(research_queries) = 2
    /\ calls[2].how = "exception"
    /\ calls[3].how = "text"

(* C6: the calls of a run come in a fixed order: one planner call on the goal, *)
(* then one research call per plan question in plan order, then one writer     *)
(* call on the serialised notes; each call begins after the one before it has  *)
(* returned, and a run in which no call raises makes exactly n + 2 calls.      *)
C6_FixedOrder ==
    LET n == Len(research_queries)
    IN /\ \A k \in 1..CallsBegun :
             LET c == CallAt(k)
             IN /\ k = 1 => (c.role = "Manager" /\ c.prompt = user_goal)
                /\ (2 <= k /\ k <= n + 1) =>
                       (c.role = "Researcher" /\ c.prompt = research_queries[k - 1])
                /\ k = n + 2 =>
                       (c.role = "Writer" /\ c.prompt = WriterTask(all_research)
                          /\ Len(all_research) = n)
                /\ k <= n + 2
                /\ k < CallsBegun => c.status = "returned"
       /\ CallsBegun >= 2 => n >= 1
       /\ pc = "done" => (CallsBegun = n + 2 /\ Len(calls) = n + 2)
       /\ qi = Len(all_research)
       /\ pc = "planning" => CallsBegun = 1
       /\ pc = "researching" => CallsBegun = qi + 2
       /\ pc = "writing" => CallsBegun = n + 2

\* a run over a plan of two questions has ended with its four calls
C6_Witness ==
    /\ pc = "done"
    /\ Len(research_queries) = 2
    /\ Len(calls) = 4
    /\ calls[4].role = "Writer"

C8_Original ==
    (pc = "extracted" /\ plan_text # <<>> /\ plan_text[1] = LB) =>
        \A l \in StrLists, sep \in Seps :
            plan_text = ArrayText(l, sep) => research_queries = l

(* C8, amended: for a JSON array of N >= 1 strings the plan is those N         *)
(* strings, empty and blank ones included, unchanged and in their order; for   *)
(* the empty array (N = 0) the plan is the goal alone.                         *)
C8_Amended ==
    (pc = "extracted" /\ plan_text # <<>> /\ plan_text[1] = LB) =>
        \A l \in StrLists, sep \in Seps :
            plan_text = ArrayText(l, sep) =>
                research_queries = IF l = <<>> THEN <<user_goal>> ELSE l

\* an array of an empty and a blank string has been extracted as it is
C8_Witness ==
    /\ pc = "extracted"
    /\ plan_text = ArrayText(<< <<>>, <<SP>> >>, <<CM, SP>>)
    /\ research_queries = << <<>>, <<SP>> >>

(* C9: a content-safety-blocked response ends the call at that attempt with    *)
(* the returned blocked-content string: no raise, no sleep after it, no        *)
(* further attempt.                                                            *)
C9_BlockedReturnsAtOnce ==
    \A k \in 1..Len(cur.outcomes) :
        IsBlocked(cur.outcomes[k]) =>
            /\ k = Len(cur.outcomes)
            /\ cur.status = "returned"
            /\ cur.value = BlockedPrefix
                             \o cur.outcomes[k].response.candidates[1].safety_ratings
                             \o <<RB>>
            /\ Len(cur.sleeps) = k - 1
            /\ cur.attempt = k - 1

\* the second attempt of a call got a blocked response
C9_Witness ==
    /\ Len(cur.outcomes) = 2
    /\ IsBlocked(cur.outcomes[2])
    /\ cur.status = "returned"

(* C10: a response without candidates, or whose first candidate has no content *)
(* segments, ends the call with one of the two markers: the blocked-content    *)
(* marker when the finish reason is a safety block, "[No content returned from *)
(* API]" otherwise; never an error string, never a raise.                      *)
C10_MarkerForEmptyResponse ==
    \A k \in 1..Len(cur.outcomes) :
        LET o == cur.outcomes[k]
        IN (IsNoCandidates(o) \/ IsNoSegments(o)) =>
              /\ cur.status = "returned"
              /\ cur.value = IF IsBlocked(o) THEN BlockedMarker(Ratings) ELSE EmptyMarker

\* number of transient failures among the outcomes of the call in progress
TransientCount ==
    Cardinality({k \in 1..Len(cur.outcomes) : IsTransientFailure(cur.outcomes[k])})

(* C11: in a call_gemini call with initial delay D the sleep after the k-th    *)
(* transient failure lasts D * 2^(k-1), for every k up to the retry budget;    *)
(* there is one sleep per transient failure, the delay held by the call is D   *)
(* doubled once per sleep, and every call starts again from D.                 *)
C11_DelayDoubles ==
    cur.status # "none" =>
        /\ Len(cur.sleeps) = TransientCount
        /\ Len(cur.sleeps) <= retries
        /\ \A k \in 1..Len(cur.sleeps) : cur.sleeps[k] = delay0 * 2^(k - 1)
        /\ cur.delay = delay0 * 2^Len(cur.sleeps)
        /\ cur.outcomes = <<>> => cur.delay = delay0

\* the second call of a run slept 5, 10 and 20 after three transient failures
C11_Witness ==
    /\ Len(calls) = 1
    /\ delay0 = 5
    /\ cur.status = "running"
    /\ cur.sleeps = <<5, 10, 20>>

\* a line without the whitespace around it
Trim(line) ==
    LET idx == {k \in 1..Len(line) : line[k] \notin StripWs}
    IN IF idx = {} THEN <<>>
       ELSE SubSeq(line, CHOOSE k \in idx : \A j \in idx : k <= j,
                         CHOOSE k \in idx : \A j \in idx : k >= j)

\* the lines of text from position i on, line being the part of the current
\* line already read: each trimmed, the empty ones dropped
RECURSIVE TrimmedLinesFrom(_, _, _)
TrimmedLinesFrom(text, i, line) ==
    LET done == IF Trim(line) = <<>> THEN <<>> ELSE <<Trim(line)>>
    IN IF i > Len(text) THEN done
       ELSE IF text[i] = NL THEN done \o TrimmedLinesFrom(text, i + 1, <<>>)
       ELSE TrimmedLinesFrom(text, i + 1, Append(line, text[i]))

TrimmedLines(text) == TrimmedLinesFrom(text, 1, <<>>)

\* the text is not the JSON text of a list of strings
NotAListOfStrings(text) == TryParse(text).exc # "none"

(* C12, as claimed: for a planner text that is not JSON, or is JSON of another *)
(* value than a list of strings, the plan is the sequence of the lines of the  *)
(* text, trimmed, empty ones dropped, in their order.                          *)
C12_Original ==
    (pc = "extracted" /\ NotAListOfStrings(plan_text)) =>
        research_queries = TrimmedLines(plan_text)

(* C12, amended: for such a text the plan is the sequence of the lines of the  *)
(* text, trimmed, empty ones dropped, in their order, when at least one line   *)
(* is left; when none is left (the text is empty or blank) the plan is the     *)
(* goal alone.                                                                 *)
C12_Amended ==
    (pc = "extracted" /\ NotAListOfStrings(plan_text)) =>
        research_queries = IF TrimmedLines(plan_text) = <<>> THEN <<user_goal>>
                           ELSE TrimmedLines(plan_text)

\* a text of two lines, the second with a space before it, has given two questions
C12_Witness ==
    /\ pc = "extracted"
    /\ plan_text = <<"1", NL, SP, "a">>
    /\ research_queries = << <<"1">>, <<"a">> >>

\* the string literals of a JSON text from index i on, decoded, in their order
RECURSIVE StringsIn(_, _)
StringsIn(s, i) ==
    LET quotes == {k \in i..Len(s) : s[k] = QT}
    IN IF quotes = {} THEN <<>>
       ELSE LET q == CHOOSE k \in quotes : \A j \in quotes : k <= j
                r == ScanString(s, q + 1, <<>>)
            IN IF ~r.ok THEN << <<"?">> >>
               ELSE <<r.value.v>> \o StringsIn(s, r.end)

\* the keys and values of a list of notes, in their order
RECURSIVE KeysAndValues(_)
KeysAndValues(notes) ==
    IF notes = <<>> THEN <<>>
    ELSE << <<"q", "u", "e", "s", "t", "i", "o", "n">>, notes[1].question,
            <<"f", "i", "n", "d", "i", "n", "g">>, notes[1].finding >>
           \o KeysAndValues(Tail(notes))

\* what holds of the notes in every state
NotesInOrder ==
    /\ Len(all_research) <= Len(research_queries)
    /\ \A i \in 1..Len(all_research) :
          /\ all_research[i].question = research_queries[i]
          /\ calls[i + 1].role = "Researcher"
          /\ calls[i + 1].status = "returned"
          /\ all_research[i].finding = calls[i + 1].value
    /\ Len(all_research) =
          Cardinality({k \in 1..Len(calls) :
                          calls[k].role = "Researcher" /\ calls[k].status = "returned"})
    /\ (cur.role = "Writer") => Len(all_research) = Len(research_queries)
    /\ (cur.role = "Writer" /\ cur.status = "running" /\ cur.outcomes = <<>>) =>
          /\ cur.prompt = WriterTask(all_research)
          /\ StringsIn(cur.prompt, 1) = KeysAndValues(all_research)

\* what holds of the notes in every step
NotesOnlyAppended ==
    \/ all_research' = all_research
    \/ /\ Len(all_research) < Len(research_queries)
       /\ all_research' = Append(all_research,
                                  [question |-> research_queries[Len(all_research) + 1],
                                   finding |-> cur.value])
       /\ cur.role = "Researcher" /\ cur.status = "returned"

(* C13: when the writer call is issued the list of notes holds one note per    *)
(* plan question, in plan order, note i with question plan[i] and with the     *)
(* value returned by the i-th research call as its finding; a step either      *)
(* leaves the list alone or appends one note to it; and the writer prompt is   *)
(* the serialisation of the whole list, from which every question and finding  *)
(* reads back.                                                                 *)
C13_NotesComplete == []NotesInOrder /\ [][NotesOnlyAppended]_vars

\* the writer is called with two notes, the second finding needing escapes
C13_Witness ==
    /\ pc = "writing"
    /\ cur.role = "Writer"
    /\ cur.status = "running"
    /\ cur.outcomes = <<>>
    /\ Len(all_research) = 2
    /\ all_research[2].finding = <<"k", QT, NL>>

SomeCallExhausted ==
    \/ \E k \in 1..Len(calls) : calls[k].how = "exhausted"
    \/ cur.status = "raised"

IsText(o) ==
    /\ o.kind = "response"
    /\ Len(o.response.candidates) > 0
    /\ Len(o.response.candidates[1].parts) > 0

(* C16: a call_gemini call ends at its first attempt whose outcome is not a    *)
(* transient error: every earlier attempt failed transiently; when attempt k   *)
(* gets a response with text the call returns the first content segment of its *)
(* first candidate after k requests and k-1 sleeps; once the call has returned *)
(* or raised no request is issued for it; and with a retry budget of 0 the     *)
(* call issues no request and raises the retries-exhausted failure.            *)
C16_EndsAtFirstFinalOutcome ==
    /\ \A k \in 1..Len(cur.outcomes) :
          LET o == cur.outcomes[k]
          IN /\ k < Len(cur.outcomes) => IsTransientFailure(o)
             /\ ~IsTransientFailure(o) =>
                    /\ k = Len(cur.outcomes)
                    /\ k <= retries
                    /\ cur.status = "returned"
                    /\ Len(cur.sleeps) = k - 1
             /\ IsText(o) => cur.value = o.response.candidates[1].parts[1]
    /\ Len(calls) = 0 => requests = Len(cur.outcomes)
    /\ CallEnded => ~ENABLED (AttemptResponds \/ AttemptRaises)
    /\ (retries = 0 /\ cur.status # "none") =>
          /\ cur.outcomes = <<>>
          /\ requests = 0
          /\ cur.status \in {"running", "raised"}
          /\ cur.status = "running" => ENABLED RetriesExhausted
          /\ cur.status = "raised" => cur.value = RetriesExhaustedMsg

\* two transient failures, then a response of two candidates, the first with
\* two segments: the call returned the first segment
C16_Witness ==
    /\ Len(cur.outcomes) = 3
    /\ IsTransientFailure(cur.outcomes[1])
    /\ IsTransientFailure(cur.outcomes[2])
    /\ IsText(cur.outcomes[3])
    /\ Len(cur.outcomes[3].response.candidates) = 2
    /\ Len(cur.outcomes[3].response.candidates[1].parts) = 2
    /\ cur.status = "returned"
    /\ Len(cur.sleeps) = 2

(* C17: the plan is the fallback [goal] only when the planner text is a JSON   *)
(* empty array or has no non-blank line. When the planner call returned an     *)
(* in-band string ("[Error: ...]", the blocked-content string, the             *)
(* empty-content marker) the plan is the sequence of the lines of that string, *)
(* the first research call gets its first line (the whole string when it is a  *)
(* single line), and no research call gets the goal. What the plan is, is      *)
(* stated of the state in which it has just been built.                        *)
C17_FallbackOnlyWhenNoQuestion ==
    LET degraded == calls[1].how \in {"exception", "no_candidates", "blocked", "empty"}
    IN /\ (Len(calls) = 1 /\ calls[1].status = "returned") =>
             /\ plan_text = calls[1].value
             /\ research_queries = <<user_goal>> => HoldsNoQuestion(plan_text)
             /\ degraded =>
                   /\ plan_text \in MarkerTexts
                   /\ research_queries = TrimmedLines(plan_text)
                   /\ (\A i \in 1..Len(plan_text) : plan_text[i] # NL) =>
                          research_queries = <<plan_text>>
       /\ (Len(calls) >= 1 /\ calls[1].status = "returned" /\ degraded) =>
             /\ research_queries # <<user_goal>>
             /\ CallsBegun >= 2
             /\ CallAt(2).role = "Researcher"
             /\ CallAt(2).prompt = research_queries[1]
             /\ \A k \in 2..CallsBegun :
                    CallAt(k).role = "Researcher" => CallAt(k).prompt # user_goal

\* the planner call was blocked and the blocked-content string has been researched
C17_Witness ==
    /\ Len(calls) >= 2
    /\ calls[1].how = "blocked"
    /\ research_queries = <<BlockedMarker(Ratings)>>
    /\ calls[2].role = "Researcher"
    /\ calls[2].prompt = BlockedMarker(Ratings)
    /\ calls[2].status = "returned"

\* what bounds the requests of a run in every state
RequestsBounded ==
    /\ requests <= retries * CallsBegun
    /\ requests <= retries * (Len(research_queries) + 2)
    /\ CallsBegun <= Len(research_queries) + 2

(* C18: provided each request eventually responds or fails, every run ends in  *)
(* DONE or FAILED, and with retry budget R and a plan of n questions it issues *)
(* at most R * (n + 2) requests, whatever the service does.                    *)
C18_Terminates ==
    /\ <>(pc \in {"done", "failed"})
    /\ []RequestsBounded

\* a run over a plan of two questions ended after 3 * (2 + 2) requests
C18_Witness ==
    /\ pc = "done"
    /\ retries = 3
    /\ Len(research_queries) = 2
    /\ requests = 12

====
